---- MODULE Spec2Model ----
(***************************************************************************)
(* Model of the stm32demo firmware (STM32F429I-DISCO, modm + Pigweed):     *)
(*   - the tokenized log framer   (src/src/log_tokenized_handler.cc)       *)
(*   - the build metadata record  (src/src/build_metadata.cc)              *)
(*   - the assertion backend      (src/src/pw_assert_backend/...)          *)
(*   - the demo main loop         (src/src/main.cpp)                       *)
(* Bytes and characters are their numeric (ASCII) codes; a C string is a   *)
(* tuple of bytes that ends with the byte 0.  A uint32_t is the pair       *)
(* <<high half, low half>> of its 16-bit halves.  The UART sink            *)
(* Board::stlink::Uart::write is the log of the bytes handed to it.        *)
(***************************************************************************)
EXTENDS Integers, Sequences, FiniteSets, TLC

VARIABLES
    \* log framer
    uart,          \* bytes handed to Board::stlink::Uart::write, in order
    calls,         \* history of completed pw_log_tokenized_HandleLog calls
    \* constexpr CRC-32
    crc_phase,     \* "idle", "str" (a string was folded) or "byte" (one byte)
    crc_arg,       \* the argument of the evaluation
    crc_result,    \* its value
    \* build metadata
    git_commit,    \* git_info::kCommit
    git_dirty,     \* git_info::kDirty
    git_branch,    \* git_info::kBranch
    build_date,    \* __DATE__
    build_time,    \* __TIME__
    meta_pc,       \* "crc", "record", "done": constant evaluation order
    meta_crc,      \* value of kMetaCrc
    build_meta,    \* value of kBuildMeta
    str_writes,    \* indices written by each str_arr call
    \* main loop and assertion backend
    pc,            \* where the program is: "startup", "loop", "check_full",
                   \* "red_on", or a place in pw_assert_basic_HandleFailure
    readings,      \* etl::vector<SensorReading, 16> readings
    tick_ms,       \* uint32_t tick_ms
    batch_count,   \* uint32_t batch_count
    iter,          \* number of loop iterations begun
    log_count,     \* number of log statements run at the default log level;
                   \* each is one pw_log_tokenized_HandleLog call, with a payload
                   \* that Pigweed's tokenizer builds
    batch_sizes,   \* sizes of the spans ProcessBatch was called with
    last_mean,     \* mean logged by the last ProcessBatch
    led_green,     \* Board::LedGreen
    led_red,       \* Board::LedRed
    irq_enabled,   \* FALSE after __disable_irq()
    hf,            \* arguments of pw_assert_basic_HandleFailure
    entered_by     \* who called pw_assert_basic_HandleFailure

logVars == <<uart, calls>>
crcVars == <<crc_phase, crc_arg, crc_result>>
metaVars == <<git_commit, git_dirty, git_branch, build_date, build_time,
              meta_pc, meta_crc, build_meta, str_writes>>
mainVars == <<pc, readings, tick_ms, batch_count, iter, log_count, batch_sizes, last_mean,
              led_green, led_red, irq_enabled, hf, entered_by>>
vars == <<logVars, crcVars, metaVars, mainVars>>

(***************************************************************************)
(* Bounds of the model.                                                    *)
(***************************************************************************)
\* size_t is 32 bits wide on the Cortex-M4 target; the model keeps the
\* wrap-around arithmetic of the loop index at a reduced width.
SizeBits == 4
\* longest payload handed to the framer as a real byte sequence
MaxLen == 3
\* number of log calls in one behaviour
MaxCalls == 2
\* longest string folded by the CRC on its own
MaxCrcLen == 3
\* longest commit and branch strings given to the metadata encoder
MaxCommitLen == 10
MaxBranchLen == 33

SizeMod == 2 ^ SizeBits
SIZE_MAX == SizeMod - 1

\* sample payload bytes (all-zero, all-one and mixed bit patterns)
ByteSample == {0, 255}
ByteWide == {0, 1, 90, 128, 165, 255}
\* sample values of the packed metadata word
MetadataSample == {0, 7}

\* all byte sequences over S of length at most n
RECURSIVE SeqsUpTo(_, _)
SeqsUpTo(S, n) ==
    IF n = 0 THEN {<<>>}
    ELSE LET shorter == SeqsUpTo(S, n - 1)
         IN  shorter \cup {Append(s, b) : s \in {t \in shorter : Len(t) = n - 1}, b \in S}

\* a C string from its characters, and the characters of a C string
CStr(chars) == chars \o <<0>>

RECURSIVE UpToNul(_)
UpToNul(s) == IF s = <<>> \/ Head(s) = 0 THEN <<>> ELSE <<Head(s)>> \o UpToNul(Tail(s))

(***************************************************************************)
(* uint32_t arithmetic on <<high, low>> halves.                            *)
(***************************************************************************)
RECURSIVE BitAnd(_, _)
BitAnd(a, b) ==
    IF a = 0 \/ b = 0 THEN 0
    ELSE 2 * BitAnd(a \div 2, b \div 2) + (IF a % 2 = 1 /\ b % 2 = 1 THEN 1 ELSE 0)

RECURSIVE BitXor(_, _)
BitXor(a, b) ==
    IF a = 0 THEN b
    ELSE IF b = 0 THEN a
    ELSE 2 * BitXor(a \div 2, b \div 2) + (((a % 2) + (b % 2)) % 2)

And32(x, y) == <<BitAnd(x[1], y[1]), BitAnd(x[2], y[2])>>
Xor32(x, y) == <<BitXor(x[1], y[1]), BitXor(x[2], y[2])>>
Shr32(x) == <<x[1] \div 2, (x[1] % 2) * 32768 + x[2] \div 2>>
Sub32(x, y) ==
    LET lo == x[2] - y[2]
        borrow == IF lo < 0 THEN 1 ELSE 0
    IN  <<(x[1] - y[1] - borrow) % 65536, lo % 65536>>
Add32(x, y) ==
    LET lo == x[2] + y[2]
    IN  <<(x[1] + y[1] + lo \div 65536) % 65536, lo % 65536>>
\* little-endian bytes of a uint32_t
LE32(x) == <<x[2] % 256, x[2] \div 256, x[1] % 256, x[1] \div 256>>

(***************************************************************************)
(* log_tokenized_handler.cc                                                *)
(***************************************************************************)
\* size_t addition
AddSz(a, b) == (a + b) % SizeMod

\* Emit(uint8_t b): one byte to the UART
Emit(b) == <<b % 256>>

kTable ==
    <<65, 66, 67, 68, 69, 70, 71, 72, 73, 74, 75, 76, 77, 78, 79, 80, 81, 82,
      83, 84, 85, 86, 87, 88, 89, 90, 97, 98, 99, 100, 101, 102, 103, 104, 105,
      106, 107, 108, 109, 110, 111, 112, 113, 114, 115, 116, 117, 118, 119,
      120, 121, 122, 48, 49, 50, 51, 52, 53, 54, 55, 56, 57, 43, 47>>

\* EmitBase64(uint8_t idx): the argument is narrowed to 8 bits, then masked
\* faulty variants: the index itself is emitted; the mask is 0x1F
EmitBase64Raw(idx) == Emit((idx % 256) % 64)
EmitBase64Mask5(idx) == Emit(kTable[((idx % 256) % 32) + 1])
EmitBase64(idx) == Emit(kTable[((idx % 256) % 64) + 1])

\* The buffer |data| as the callee sees it: offsets 0 .. SIZE_MAX from the
\* pointer; the payload occupies the first Len(payload) cells, whatever lies
\* behind it is not part of the buffer.
MemOf(payload, junk) ==
    [j \in 0 .. SIZE_MAX |-> IF j < Len(payload) THEN payload[j + 1] ELSE junk]

PayloadOf(data, size_bytes) == [k \in 1 .. size_bytes |-> data[k - 1]]

\* for (; i + 2 < size_bytes; i += 3) { ... }
RECURSIVE GroupLoop(_, _, _)
GroupLoop(data, size_bytes, st) ==
    IF AddSz(st.i, 2) < size_bytes
    THEN LET i == st.i
             g == data[i] * 65536 + data[AddSz(i, 1)] * 256 + data[AddSz(i, 2)]
         IN  GroupLoop(data, size_bytes,
                 [i     |-> AddSz(i, 3),
                  out   |-> st.out \o EmitBase64(g \div 262144)
                                   \o EmitBase64(g \div 4096)
                                   \o EmitBase64(g \div 64)
                                   \o EmitBase64(g),
                  reads |-> st.reads \o <<i, AddSz(i, 1), AddSz(i, 2)>>])
    ELSE st

\* if (i < size_bytes) { ... }: the remaining 1 or 2 bytes
\* faulty variant: a single remaining byte gets one '=' only
TailGroupOnePad(data, size_bytes, st) ==
    IF st.i < size_bytes
    THEN LET i == st.i
             two == AddSz(i, 1) < size_bytes
             g == data[i] * 65536 + (IF two THEN data[AddSz(i, 1)] * 256 ELSE 0)
         IN  [i     |-> i,
              out   |-> st.out \o EmitBase64(g \div 262144)
                               \o EmitBase64(g \div 4096)
                               \o (IF two THEN EmitBase64(g \div 64) ELSE <<>>)
                               \o Emit(61),
              reads |-> st.reads \o <<i>> \o (IF two THEN <<AddSz(i, 1)>> ELSE <<>>)]
    ELSE st
TailGroup(data, size_bytes, st) ==
    IF st.i < size_bytes
    THEN LET i == st.i
             two == AddSz(i, 1) < size_bytes
             g == data[i] * 65536 + (IF two THEN data[AddSz(i, 1)] * 256 ELSE 0)
         IN  [i     |-> i,
              out   |-> st.out \o EmitBase64(g \div 262144)
                               \o EmitBase64(g \div 4096)
                               \o (IF two THEN EmitBase64(g \div 64) ELSE Emit(61))
                               \o Emit(61),
              reads |-> st.reads \o <<i>> \o (IF two THEN <<AddSz(i, 1)>> ELSE <<>>)]
    ELSE st

\* The body of pw_log_tokenized_HandleLog: the bytes it emits and the
\* offsets of |data| it reads, in order.  |metadata| is not used.
\* faulty variant: a character for |metadata| follows the '$'
HandleLogBodyWithMetadata(metadata, data, size_bytes) ==
    LET st == TailGroup(data, size_bytes,
                  GroupLoop(data, size_bytes,
                      [i |-> 0, out |-> Emit(36) \o EmitBase64(metadata), reads |-> <<>>]))
    IN  [out |-> st.out \o Emit(10), reads |-> st.reads]
HandleLogBody(metadata, data, size_bytes) ==
    LET st == TailGroup(data, size_bytes,
                  GroupLoop(data, size_bytes,
                      [i |-> 0, out |-> Emit(36), reads |-> <<>>]))
    IN  [out |-> st.out \o Emit(10), reads |-> st.reads]

\* One call of pw_log_tokenized_HandleLog(metadata, data, size_bytes).
pw_log_tokenized_HandleLog(metadata, data, size_bytes) ==
    LET run == HandleLogBody(metadata, data, size_bytes)
    IN  /\ uart' = uart \o run.out
        /\ calls' = Append(calls, [metadata |-> metadata,
                                   size     |-> size_bytes,
                                   payload  |-> PayloadOf(data, size_bytes),
                                   frame    |-> run.out,
                                   reads    |-> run.reads])

(***************************************************************************)
(* build_metadata.cc: constexpr CRC-32                                     *)
(***************************************************************************)
\* 0xEDB88320u
Poly == <<60856, 33568>>
AllOnes32 == <<65535, 65535>>

\* crc = (crc >> 1) ^ (0xEDB88320u & (0u - (crc & 1u)));
\* faulty variant: the mask is (crc & 1u), not its negation
Crc32RoundNoNegate(crc) ==
    Xor32(Shr32(crc), And32(Poly, And32(crc, <<0, 1>>)))
Crc32Round(crc) ==
    Xor32(Shr32(crc), And32(Poly, Sub32(<<0, 0>>, And32(crc, <<0, 1>>))))

\* for (int i = 0; i < 8; ++i) crc = ...;   (st = [crc, i])
RECURSIVE Crc32Rounds(_)
Crc32Rounds(st) ==
    IF st.i < 8 THEN Crc32Rounds([crc |-> Crc32Round(st.crc), i |-> st.i + 1]) ELSE st

\* crc32_byte(uint32_t crc, uint8_t b)
crc32_byte(crc, b) == Crc32Rounds([crc |-> Xor32(crc, <<0, b % 256>>), i |-> 0]).crc

\* for (; *s; ++s) crc = crc32_byte(crc, *s);   (st = [s, crc])
RECURSIVE Crc32StrLoop(_)
Crc32StrLoop(st) ==
    IF Head(st.s) # 0
    THEN Crc32StrLoop([s |-> Tail(st.s), crc |-> crc32_byte(st.crc, Head(st.s))])
    ELSE st

\* crc32_str(const char* s, uint32_t crc)
crc32_str(s, crc) == Crc32StrLoop([s |-> s, crc |-> crc]).crc

\* kMetaCrc: the constexpr lambda
kMetaCrc(commit, dirty, branch, date, time) ==
    LET c0 == AllOnes32
        c1 == crc32_str(commit, c0)
        c2 == crc32_byte(c1, IF dirty THEN 1 ELSE 0)
        c3 == crc32_str(branch, c2)
        c4 == crc32_str(date, c3)
        c5 == crc32_str(time, c4)
    IN  Xor32(c5, AllOnes32)

\* The CRC of one C string on its own: init 0xFFFFFFFF, fold, final XOR.
EvalCrcOfString ==
    \E s \in {CStr(t) : t \in SeqsUpTo({1, 90, 128, 255}, MaxCrcLen)
                            \cup {<<49, 50, 51, 52, 53, 54, 55, 56, 57>>, <<97>>}} :
        /\ crc_phase = "idle"
        /\ crc_phase' = "str"
        /\ crc_arg' = s
        /\ crc_result' = Xor32(crc32_str(s, AllOnes32), AllOnes32)

\* One crc32_byte step from a sample accumulator, for any byte.
AccSample == {<<0, 0>>, <<0, 1>>, <<32768, 0>>, <<65535, 65535>>, <<60856, 33568>>,
              <<4660, 22136>>, <<43690, 21845>>, <<1, 65534>>}

EvalCrcOfByte ==
    \E acc \in AccSample, b \in 0 .. 255 :
        /\ crc_phase = "idle"
        /\ crc_phase' = "byte"
        /\ crc_arg' = <<acc, b>>
        /\ crc_result' = crc32_byte(acc, b)

(***************************************************************************)
(* build_metadata.cc: the BuildMetadata record                             *)
(***************************************************************************)
\* field widths of struct BuildMetadata
kCommitWidth == 9
kBranchWidth == 32
kDateWidth == 12
kTimeWidth == 9

\* for (std::size_t i = 0; i < N - 1 && s[i]; ++i) a[i] = s[i];
\* faulty variant: the loop runs to i < N
RECURSIVE StrArrLoopToN(_, _, _)
StrArrLoopToN(N, s, st) ==
    IF st.i < N /\ s[st.i + 1] # 0
    THEN StrArrLoopToN(N, s, [i      |-> st.i + 1,
                              a      |-> [st.a EXCEPT ![st.i + 1] = s[st.i + 1]],
                              writes |-> st.writes \cup {st.i}])
    ELSE st
RECURSIVE StrArrLoop(_, _, _)
StrArrLoop(N, s, st) ==
    IF st.i < N - 1 /\ s[st.i + 1] # 0
    THEN StrArrLoop(N, s, [i      |-> st.i + 1,
                           a      |-> [st.a EXCEPT ![st.i + 1] = s[st.i + 1]],
                           writes |-> st.writes \cup {st.i}])
    ELSE st

\* str_arr<N>(s): the array returned (a[k + 1] is element k) and the set of
\* element indices the loop assigned
str_arr(N, s) ==
    LET st == StrArrLoop(N, s, [i |-> 0, a |-> [k \in 1 .. N |-> 0], writes |-> {}])
    IN  [a |-> st.a, writes |-> st.writes]

\* kBuildMeta: the aggregate initialiser
kBuildMeta(commit, dirty, branch, date, time, crc) ==
    [magic  |-> <<77, 69, 84, 65>>,
     commit |-> str_arr(kCommitWidth, commit).a,
     dirty  |-> IF dirty THEN 1 ELSE 0,
     branch |-> str_arr(kBranchWidth, branch).a,
     date   |-> str_arr(kDateWidth, date).a,
     time   |-> str_arr(kTimeWidth, time).a,
     crc32  |-> crc]

\* struct __attribute__((packed)) BuildMetadata as it lies in the image:
\* the members in declaration order, no padding, crc32 little-endian
BuildMetadataBytes(m) ==
    m.magic \o m.commit \o <<m.dirty>> \o m.branch \o m.date \o m.time \o LE32(m.crc32)

\* constant evaluation of kMetaCrc
EvalMetaCrc ==
    /\ meta_pc = "crc"
    /\ meta_crc' = kMetaCrc(git_commit, git_dirty, git_branch, build_date, build_time)
    /\ meta_pc' = "record"
    /\ UNCHANGED <<git_commit, git_dirty, git_branch, build_date, build_time,
                   build_meta, str_writes>>

\* constant evaluation of kBuildMeta
EvalBuildMeta ==
    /\ meta_pc = "record"
    /\ build_meta' = kBuildMeta(git_commit, git_dirty, git_branch, build_date,
                                build_time, meta_crc)
    /\ str_writes' = [commit |-> str_arr(kCommitWidth, git_commit).writes,
                      branch |-> str_arr(kBranchWidth, git_branch).writes,
                      date   |-> str_arr(kDateWidth, build_date).writes,
                      time   |-> str_arr(kTimeWidth, build_time).writes]
    /\ meta_pc' = "done"
    /\ UNCHANGED <<git_commit, git_dirty, git_branch, build_date, build_time, meta_crc>>

\* Inputs of the build: git_info.h is generated, __DATE__ and __TIME__ come
\* from the compiler.
HexDigits == <<48, 49, 50, 51, 52, 53, 54, 55, 56, 57, 97, 98, 99, 100, 101, 102>>
BranchChars == <<102, 101, 97, 116, 117, 114, 101, 47, 117, 97, 114, 116, 45, 108, 111, 103>>
Cycle(pattern, n) == [k \in 1 .. n |-> pattern[((k - 1) % Len(pattern)) + 1]]

CommitLens == {0, 1} \cup ((kCommitWidth - 2) .. MaxCommitLen)
BranchLens == {0, 1} \cup ((kBranchWidth - 2) .. MaxBranchLen)
\* <<__DATE__, __TIME__>>: "Nov  6 2026" "08:46:00", "Jan 12 2025" "23:59:59"
BuildStamps ==
    {<<CStr(<<78, 111, 118, 32, 32, 54, 32, 50, 48, 50, 54>>),
       CStr(<<48, 56, 58, 52, 54, 58, 48, 48>>)>>,
     <<CStr(<<74, 97, 110, 32, 49, 50, 32, 50, 48, 50, 53>>),
       CStr(<<50, 51, 58, 53, 57, 58, 53, 57>>)>>}

(***************************************************************************)
(* pw_assert_backend/assert_backend.cc                                     *)
(***************************************************************************)
\* the null pointer (no bytes at all, not even a terminator)
NULL == <<>>

\* UartWrite(const char* str): while (str && *str) write(*str++);
UartWrite(str) == IF str # NULL THEN UpToNul(str) ELSE <<>>

\* UartWriteN(const char* buf, size_t len)
UartWriteN(buf, len) == [k \in 1 .. len |-> buf[k]]

\* while (value > 0) { buf[--pos] = '0' + value % 10; value /= 10; }
RECURSIVE DigitLoop(_)
DigitLoop(st) ==
    IF st.value > 0
    THEN DigitLoop([value |-> st.value \div 10,
                    buf   |-> <<48 + (st.value % 10)>> \o st.buf])
    ELSE st

\* UartWriteInt(int value), for value above INT_MIN
UartWriteInt(value) ==
    LET sign == IF value < 0 THEN <<45>> ELSE <<>>
        v == IF value < 0 THEN 0 - value ELSE value
    IN  IF v = 0 THEN sign \o <<48>>
        ELSE sign \o UartWrite(CStr(DigitLoop([value |-> v, buf |-> <<>>]).buf))

HandlerPcs == {"hf_banner", "hf_file", "hf_function", "hf_message", "hf_halting",
               "hf_led_green", "hf_led_red", "hf_disable_irq", "hf_spin"}

\* Entry of pw_assert_basic_HandleFailure(file_name, line_number,
\* function_name, message, ...) from |caller|.
pw_assert_basic_HandleFailure(caller, file_name, line_number, function_name, message) ==
    /\ pc' = "hf_banner"
    /\ hf' = [file_name |-> file_name, line_number |-> line_number,
              function_name |-> function_name, message |-> message]
    /\ entered_by' = caller

\* UartWriteN("\r\n", 2); UartWrite("!!! ASSERTION FAILED !!!\r\n");
HF_Banner ==
    /\ pc = "hf_banner"
    /\ uart' = uart \o UartWriteN(CStr(<<13, 10>>), 2)
                    \o UartWrite(CStr(<<33, 33, 33, 32, 65, 83, 83, 69, 82, 84, 73, 79,
                                        78, 32, 70, 65, 73, 76, 69, 68, 32, 33, 33, 33,
                                        13, 10>>))
    /\ pc' = "hf_file"
    /\ UNCHANGED <<hf, entered_by, led_green, led_red, irq_enabled>>

\* if (file_name) { ... }
HF_File ==
    /\ pc = "hf_file"
    /\ uart' = IF hf.file_name # NULL
               THEN uart \o UartWrite(CStr(<<32, 32, 102, 105, 108, 101, 58, 32, 32, 32,
                                             32, 32>>))
                         \o UartWrite(hf.file_name)
                         \o UartWrite(CStr(<<58>>))
                         \o UartWriteInt(hf.line_number)
                         \o UartWriteN(CStr(<<13, 10>>), 2)
               ELSE uart
    /\ pc' = "hf_function"
    /\ UNCHANGED <<hf, entered_by, led_green, led_red, irq_enabled>>

\* if (function_name) { ... }
HF_Function ==
    /\ pc = "hf_function"
    /\ uart' = IF hf.function_name # NULL
               THEN uart \o UartWrite(CStr(<<32, 32, 102, 117, 110, 99, 116, 105, 111,
                                             110, 58, 32>>))
                         \o UartWrite(hf.function_name)
                         \o UartWriteN(CStr(<<13, 10>>), 2)
               ELSE uart
    /\ pc' = "hf_message"
    /\ UNCHANGED <<hf, entered_by, led_green, led_red, irq_enabled>>

\* if (message && *message) { ... }
HF_Message ==
    /\ pc = "hf_message"
    /\ uart' = IF hf.message # NULL /\ Head(hf.message) # 0
               THEN uart \o UartWrite(CStr(<<32, 32, 109, 101, 115, 115, 97, 103, 101,
                                             58, 32, 32>>))
                         \o UartWrite(hf.message)
                         \o UartWriteN(CStr(<<13, 10>>), 2)
               ELSE uart
    /\ pc' = "hf_halting"
    /\ UNCHANGED <<hf, entered_by, led_green, led_red, irq_enabled>>

\* UartWrite("  Halting MCU.\r\n");
HF_Halting ==
    /\ pc = "hf_halting"
    /\ uart' = uart \o UartWrite(CStr(<<32, 32, 72, 97, 108, 116, 105, 110, 103, 32, 77,
                                        67, 85, 46, 13, 10>>))
    /\ pc' = "hf_led_green"
    /\ UNCHANGED <<hf, entered_by, led_green, led_red, irq_enabled>>

\* Board::LedGreen::set();
HF_LedGreen ==
    /\ pc = "hf_led_green"
    /\ led_green' = TRUE
    /\ pc' = "hf_led_red"
    /\ UNCHANGED <<uart, hf, entered_by, led_red, irq_enabled>>

\* Board::LedRed::set();
HF_LedRed ==
    /\ pc = "hf_led_red"
    /\ led_red' = TRUE
    /\ pc' = "hf_disable_irq"
    /\ UNCHANGED <<uart, hf, entered_by, led_green, irq_enabled>>

\* __disable_irq();
HF_DisableIrq ==
    /\ pc = "hf_disable_irq"
    /\ irq_enabled' = FALSE
    /\ pc' = "hf_spin"
    /\ UNCHANGED <<uart, hf, entered_by, led_green, led_red>>

\* while (true) { __NOP(); }
\* faulty variant: the loop ends and control is back in main
HF_SpinReturns ==
    /\ pc = "hf_spin"
    /\ pc' = "loop"
    /\ UNCHANGED <<uart, hf, entered_by, led_green, led_red, irq_enabled>>
HF_Spin ==
    /\ pc = "hf_spin"
    /\ UNCHANGED <<pc, uart, hf, entered_by, led_green, led_red, irq_enabled>>

(***************************************************************************)
(* main.cpp                                                                *)
(***************************************************************************)
\* etl::vector<SensorReading, 16>
kCapacity == 16
\* iterations of the main loop in one behaviour
MaxIter == 34

\* x / d of a uint32_t x, for a quotient below 2^31
Div32(x, d) == (x[1] \div d) * 65536 + ((x[1] % d) * 65536 + x[2]) \div d

\* int division truncates towards zero
TruncDiv(a, b) == IF a >= 0 THEN a \div b ELSE 0 - ((0 - a) \div b)

RECURSIVE SumRaw(_)
SumRaw(batch) == IF batch = <<>> THEN 0 ELSE Head(batch).raw_value + SumRaw(Tail(batch))

\* ProcessBatch(pw::span<const SensorReading> batch): its status, the mean
\* it logs and the number of log statements it runs
\* faulty variant: the emptiness test is inverted
ProcessBatchInverted(batch) ==
    IF batch # <<>>
    THEN [status |-> "InvalidArgument", mean |-> 0, logs |-> 1]
    ELSE [status |-> "Ok", mean |-> 0, logs |-> 1]
ProcessBatch(batch) ==
    IF batch = <<>>
    THEN [status |-> "InvalidArgument", mean |-> 0, logs |-> 1]
    ELSE [status |-> "Ok",
          mean   |-> TruncDiv(SumRaw(batch), Len(batch)),
          logs   |-> Len(batch) + 1]

mainData == <<readings, tick_ms, batch_count, iter, log_count, batch_sizes, last_mean>>

\* main() up to the loop: board and UART set-up, the banner log statements,
\* the empty readings buffer and the two counters
MainStartup ==
    /\ pc = "startup"
    /\ readings' = <<>>
    /\ tick_ms' = <<0, 0>>
    /\ batch_count' = <<0, 0>>
    /\ log_count' = log_count + 8
    /\ pc' = "loop"
    /\ UNCHANGED <<uart, hf, entered_by, led_green, led_red, irq_enabled, iter,
                   batch_sizes, last_mean>>

\* Loop body, first part: heartbeat, tick, simulated reading, push_back
MainHeartbeat ==
    /\ pc = "loop"
    /\ iter < MaxIter
    /\ iter' = iter + 1
    /\ led_green' = ~led_green
    /\ LET tick == Add32(tick_ms, <<0, 500>>)
           value == (Div32(tick, 500) % 100) - 50
       IN  /\ tick_ms' = tick
           /\ readings' = IF Len(readings) # kCapacity
                          THEN Append(readings, [timestamp_ms |-> tick, raw_value |-> value])
                          ELSE readings
    /\ pc' = "check_full"
    /\ UNCHANGED <<uart, hf, entered_by, led_red, irq_enabled, batch_count, log_count,
                   batch_sizes, last_mean>>

\* Loop body, second part: if (readings.full()) { ... } up to LedRed::set()
MainBatch ==
    /\ pc = "check_full"
    /\ IF Len(readings) = kCapacity
       THEN LET r == ProcessBatch(readings)
            IN  /\ batch_count' = Add32(batch_count, <<0, 1>>)
                /\ log_count' = log_count + 1 + r.logs
                /\ batch_sizes' = batch_sizes \cup {Len(readings)}
                /\ last_mean' = r.mean
                /\ IF r.status = "Ok"
                   THEN /\ readings' = <<>>
                        /\ led_red' = TRUE
                        /\ pc' = "red_on"
                        /\ UNCHANGED <<hf, entered_by>>
                   ELSE /\ pw_assert_basic_HandleFailure("PW_CHECK_OK",
                               CStr(<<109, 97, 105, 110, 46, 99, 112, 112>>), 151,
                               CStr(<<109, 97, 105, 110>>),
                               CStr(<<80, 114, 111, 99, 101, 115, 115, 66, 97, 116, 99,
                                      104, 32, 102, 97, 105, 108, 101, 100>>))
                        /\ UNCHANGED <<readings, led_red>>
       ELSE /\ pc' = "loop"
            /\ UNCHANGED <<readings, batch_count, log_count, batch_sizes, last_mean,
                           led_red, hf, entered_by>>
    /\ UNCHANGED <<uart, led_green, irq_enabled, tick_ms, iter>>

\* Loop body, end: modm::delay(100ms); Board::LedRed::reset();
MainRedOff ==
    /\ pc = "red_on"
    /\ led_red' = FALSE
    /\ pc' = "loop"
    /\ UNCHANGED <<uart, hf, entered_by, led_green, irq_enabled, mainData>>

\* A PW_CHECK or PW_ASSERT of the linked libraries fails while main runs.
FileSample == {NULL, CStr(<<109, 97, 105, 110, 46, 99, 112, 112>>)}
LineSample == {0, 151, -5}
FunctionSample == {NULL, CStr(<<109, 97, 105, 110>>)}
MessageSample == {NULL, CStr(<<>>), CStr(<<80, 114, 111, 99, 101, 115, 115, 66, 97, 116,
                                           99, 104, 32, 102, 97, 105, 108, 101, 100>>)}

AssertElsewhere ==
    \E file_name \in FileSample, line_number \in LineSample,
       function_name \in FunctionSample, message \in MessageSample :
        /\ pc \in {"loop", "check_full", "red_on"}
        /\ pw_assert_basic_HandleFailure("elsewhere", file_name, line_number,
                                         function_name, message)
        /\ UNCHANGED <<uart, led_green, led_red, irq_enabled, mainData>>

(***************************************************************************)
(* Specifications.                                                         *)
(***************************************************************************)
IdleLog ==
    /\ uart = <<>>
    /\ calls = <<>>

IdleMeta ==
    /\ git_commit = <<0>>
    /\ git_dirty = FALSE
    /\ git_branch = <<0>>
    /\ build_date = <<0>>
    /\ build_time = <<0>>
    /\ meta_pc = "idle"
    /\ meta_crc = <<0, 0>>
    /\ build_meta = <<>>
    /\ str_writes = <<>>

StartMeta ==
    /\ git_commit \in {CStr(Cycle(HexDigits, n)) : n \in CommitLens}
    /\ git_dirty \in BOOLEAN
    /\ git_branch \in {CStr(Cycle(BranchChars, n)) : n \in BranchLens}
    /\ \E stamp \in BuildStamps : build_date = stamp[1] /\ build_time = stamp[2]
    /\ meta_pc = "crc"
    /\ meta_crc = <<0, 0>>
    /\ build_meta = <<>>
    /\ str_writes = <<>>

NextMeta ==
    \/ EvalMetaCrc /\ UNCHANGED <<logVars, crcVars, mainVars>>
    \/ EvalBuildMeta /\ UNCHANGED <<logVars, crcVars, mainVars>>

IdleCrc ==
    /\ crc_phase = "idle"
    /\ crc_arg = <<>>
    /\ crc_result = <<0, 0>>

NextCrc ==
    \/ EvalCrcOfString /\ UNCHANGED <<logVars, metaVars, mainVars>>
    \/ EvalCrcOfByte /\ UNCHANGED <<logVars, metaVars, mainVars>>

IdleMain ==
    /\ pc = "idle"
    /\ hf = <<>>
    /\ entered_by = "none"
    /\ led_green = FALSE
    /\ led_red = FALSE
    /\ irq_enabled = TRUE
    /\ readings = <<>>
    /\ tick_ms = <<0, 0>>
    /\ batch_count = <<0, 0>>
    /\ iter = 0
    /\ log_count = 0
    /\ batch_sizes = {}
    /\ last_mean = 0

StartMain ==
    /\ pc = "startup"
    /\ hf = <<>>
    /\ entered_by = "none"
    /\ led_green = FALSE
    /\ led_red = FALSE
    /\ irq_enabled = TRUE
    /\ readings = <<>>
    /\ tick_ms = <<0, 0>>
    /\ batch_count = <<0, 0>>
    /\ iter = 0
    /\ log_count = 0
    /\ batch_sizes = {}
    /\ last_mean = 0

NextMain ==
    \/ MainStartup /\ UNCHANGED <<calls, crcVars, metaVars>>
    \/ MainHeartbeat /\ UNCHANGED <<calls, crcVars, metaVars>>
    \/ MainBatch /\ UNCHANGED <<calls, crcVars, metaVars>>
    \/ MainRedOff /\ UNCHANGED <<calls, crcVars, metaVars>>
    \/ AssertElsewhere /\ UNCHANGED <<calls, crcVars, metaVars>>
    \/ HF_Banner /\ UNCHANGED <<calls, crcVars, metaVars, mainData>>
    \/ HF_File /\ UNCHANGED <<calls, crcVars, metaVars, mainData>>
    \/ HF_Function /\ UNCHANGED <<calls, crcVars, metaVars, mainData>>
    \/ HF_Message /\ UNCHANGED <<calls, crcVars, metaVars, mainData>>
    \/ HF_Halting /\ UNCHANGED <<calls, crcVars, metaVars, mainData>>
    \/ HF_LedGreen /\ UNCHANGED <<calls, crcVars, metaVars, mainData>>
    \/ HF_LedRed /\ UNCHANGED <<calls, crcVars, metaVars, mainData>>
    \/ HF_DisableIrq /\ UNCHANGED <<calls, crcVars, metaVars, mainData>>
    \/ HF_Spin /\ UNCHANGED <<calls, crcVars, metaVars, mainData>>

\* Any finite sequence of log statements, each with a real payload.
LogCall ==
    \E metadata \in MetadataSample, payload \in SeqsUpTo(ByteSample, MaxLen),
       junk \in ByteSample :
        /\ Len(calls) < MaxCalls
        /\ pw_log_tokenized_HandleLog(metadata, MemOf(payload, junk), Len(payload))

NextLog == LogCall /\ UNCHANGED <<crcVars, metaVars, mainVars>>

\* One call, payload bytes drawn from the wider sample.
EncCall ==
    \E metadata \in MetadataSample, payload \in SeqsUpTo(ByteWide, MaxLen),
       junk \in ByteSample :
        /\ calls = <<>>
        /\ pw_log_tokenized_HandleLog(metadata, MemOf(payload, junk), Len(payload))

NextEnc == EncCall /\ UNCHANGED <<crcVars, metaVars, mainVars>>

\* One call with any |size_bytes| a size_t can hold; the memory behind the
\* pointer holds a byte pattern.
Memories == {[j \in 0 .. SIZE_MAX |-> (j * stride + fill) % 256] :
                 stride \in {0, 37, 101}, fill \in ByteSample}

SizeCall ==
    \E metadata \in MetadataSample, size_bytes \in 0 .. SIZE_MAX, data \in Memories :
        /\ calls = <<>>
        /\ pw_log_tokenized_HandleLog(metadata, data, size_bytes)

NextSize == SizeCall /\ UNCHANGED <<crcVars, metaVars, mainVars>>

InitLog == IdleLog /\ IdleCrc /\ IdleMeta /\ IdleMain
InitCrc == IdleLog /\ IdleCrc /\ IdleMeta /\ IdleMain
InitMeta == IdleLog /\ IdleCrc /\ StartMeta /\ IdleMain
InitMain == IdleLog /\ IdleCrc /\ IdleMeta /\ StartMain

\* the log framer: any sequence of calls
SpecLog == InitLog /\ [][NextLog]_vars
\* the log framer: one call, wider byte sample
SpecEnc == InitLog /\ [][NextEnc]_vars
\* the log framer: one call, any size_bytes
SpecSize == InitLog /\ [][NextSize]_vars
\* the constexpr CRC-32 on its own
SpecCrc == InitCrc /\ [][NextCrc]_vars
\* the build metadata record
SpecMeta == InitMeta /\ [][NextMeta]_vars

\* the main loop and the assertion backend
SpecMain == InitMain /\ [][NextMain]_vars

(***************************************************************************)
(* Properties of the framer.                                               *)
(***************************************************************************)
RECURSIVE Concat(_)
Concat(ss) == IF ss = <<>> THEN <<>> ELSE Head(ss) \o Concat(Tail(ss))

RECURSIVE Count(_, _)
Count(s, b) ==
    IF s = <<>> THEN 0 ELSE (IF Head(s) = b THEN 1 ELSE 0) + Count(Tail(s), b)

\* RFC 4648 alphabet: A-Z a-z 0-9 + /
B64Chars == (65 .. 90) \cup (97 .. 122) \cup (48 .. 57) \cup {43, 47}

WellFormedFrame(f) ==
    /\ Len(f) >= 2
    /\ f[1] = 36
    /\ f[Len(f)] = 10
    /\ \A k \in 2 .. Len(f) - 1 : f[k] \in B64Chars \cup {61}

FramesOf(cs) == [k \in 1 .. Len(cs) |-> cs[k].frame]

\* the bytes of a frame between '$' and '\n'
Body(f) == SubSeq(f, 2, Len(f) - 1)

\* C1: after any sequence of calls the UART holds exactly one frame per call,
\* in call order; each frame is '$', then only Base64 characters or '=', then
\* '\n'; so '$' and '\n' each occur once per completed call.
C1_UartIsFrames ==
    /\ uart = Concat(FramesOf(calls))
    /\ \A k \in 1 .. Len(calls) : WellFormedFrame(calls[k].frame)
    /\ Count(uart, 36) = Len(calls)
    /\ Count(uart, 10) = Len(calls)

C1_Witness ==
    /\ Len(calls) = 2
    /\ calls[1].size = 2
    /\ calls[2].size = 0
    /\ Len(uart) = 8

\* A standard RFC 4648 decoder: each character is a 6-bit value, four
\* characters are one 24-bit group, most significant first; '=' pads the last
\* group.  The result is <<FALSE>> when the text is not valid Base64.
B64Val(c) ==
    IF c \in 65 .. 90 THEN c - 65
    ELSE IF c \in 97 .. 122 THEN c - 71
    ELSE IF c \in 48 .. 57 THEN c + 4
    ELSE IF c = 43 THEN 62
    ELSE 63

RECURSIVE B64Decode(_)
B64Decode(t) ==
    IF t = <<>> THEN <<>>
    ELSE IF Len(t) < 4 \/ t[1] \notin B64Chars \/ t[2] \notin B64Chars THEN <<FALSE>>
    ELSE LET v1 == B64Val(t[1])
             v2 == B64Val(t[2])
             b1 == v1 * 4 + v2 \div 16
         IN  IF t[3] = 61
             THEN IF Len(t) = 4 /\ t[4] = 61 /\ v2 % 16 = 0 THEN <<b1>> ELSE <<FALSE>>
             ELSE IF t[3] \notin B64Chars THEN <<FALSE>>
             ELSE LET v3 == B64Val(t[3])
                      b2 == (v2 % 16) * 16 + v3 \div 4
                  IN  IF t[4] = 61
                      THEN IF Len(t) = 4 /\ v3 % 4 = 0 THEN <<b1, b2>> ELSE <<FALSE>>
                      ELSE IF t[4] \notin B64Chars THEN <<FALSE>>
                      ELSE <<b1, b2, (v3 % 4) * 64 + B64Val(t[4])>>
                               \o B64Decode(SubSeq(t, 5, Len(t)))

\* C2: decoding the body of every emitted frame with a standard Base64
\* decoder gives back the payload, byte for byte.
C2_RoundTrip ==
    \A k \in 1 .. Len(calls) : B64Decode(Body(calls[k].frame)) = calls[k].payload

C2_Witness ==
    /\ Len(calls) = 1
    /\ calls[1].payload = <<165, 90, 1>>
    /\ B64Decode(Body(calls[1].frame)) = <<165, 90, 1>>

CeilDiv3(n) == (n + 2) \div 3

\* C3: the body of the frame for a payload of L bytes has 4*ceil(L/3)
\* characters, of which exactly the last (3 - L mod 3) mod 3 are '='; L = 0
\* gives the frame "$\n", <<0xFF>> gives "$/w==\n", <<0,0,0>> gives "$AAAA\n".
C3_LengthAndPadding ==
    \A k \in 1 .. Len(calls) :
        LET L == calls[k].size
            b == Body(calls[k].frame)
            pad == (3 - (L % 3)) % 3
        IN  /\ Len(b) = 4 * CeilDiv3(L)
            /\ \A j \in 1 .. Len(b) : (b[j] = 61) <=> (j > Len(b) - pad)
            /\ L = 0 => calls[k].frame = <<36, 10>>
            /\ calls[k].payload = <<255>> => calls[k].frame = <<36, 47, 119, 61, 61, 10>>
            /\ calls[k].payload = <<0, 0, 0>> => calls[k].frame = <<36, 65, 65, 65, 65, 10>>

C3_Witness ==
    /\ Len(calls) = 1
    /\ calls[1].payload = <<255>>
    /\ calls[1].frame = <<36, 47, 119, 61, 61, 10>>

\* C4: two calls with the same payload emit the same frame, whatever their
\* metadata and whatever was logged before them.
C4_SamePayloadSameFrame ==
    \A j, k \in 1 .. Len(calls) :
        calls[j].payload = calls[k].payload => calls[j].frame = calls[k].frame

C4_Witness ==
    /\ Len(calls) = 2
    /\ calls[1].payload = <<255, 0>>
    /\ calls[2].payload = <<255, 0>>
    /\ calls[1].metadata # calls[2].metadata
    /\ calls[1].frame = calls[2].frame

\* C9: for every size_bytes a size_t can hold, a call reads data[0],
\* data[1], ..., data[size_bytes - 1], each once and in this order, nothing
\* else, and emits 4*ceil(size_bytes/3) + 2 bytes.
C9_ReadsInBounds ==
    \A k \in 1 .. Len(calls) :
        /\ \A j \in 1 .. Len(calls[k].reads) : calls[k].reads[j] < calls[k].size
        /\ calls[k].reads = [j \in 1 .. calls[k].size |-> j - 1]
        /\ Len(calls[k].frame) = 4 * CeilDiv3(calls[k].size) + 2
(***************************************************************************)
(* Properties of the CRC-32.                                               *)
(***************************************************************************)
\* The specified step: if the low bit is set, shift right and XOR with the
\* polynomial, else shift right.
RefRound(crc) ==
    IF crc[2] % 2 = 1 THEN Xor32(Shr32(crc), <<60856, 33568>>) ELSE Shr32(crc)

RefByte(crc, b) ==
    LET x == Xor32(crc, <<0, b>>)
    IN  RefRound(RefRound(RefRound(RefRound(RefRound(RefRound(RefRound(RefRound(x))))))))

RECURSIVE RefFold(_)
RefFold(st) ==
    IF st.bytes = <<>> THEN st
    ELSE RefFold([bytes |-> Tail(st.bytes), crc |-> RefByte(st.crc, Head(st.bytes))])

\* IEEE 802.3 / zlib CRC-32 of a byte sequence
RefCrc32(bytes) ==
    Xor32(RefFold([bytes |-> bytes, crc |-> <<65535, 65535>>]).crc, <<65535, 65535>>)

\* C5: the constexpr CRC-32 of a NUL-free string is its IEEE 802.3 CRC-32,
\* every crc32_byte step equals the specified conditional step, and the CRC-32
\* of "123456789" is 0xCBF43926 (that of "a" 0xE8B7BE43, of "" 0).
C5_CrcIsReference ==
    /\ crc_phase = "str" =>
          /\ crc_result = RefCrc32(UpToNul(crc_arg))
          /\ crc_arg = CStr(<<49, 50, 51, 52, 53, 54, 55, 56, 57>>)
                => crc_result = <<52212, 14630>>
          /\ crc_arg = CStr(<<97>>) => crc_result = <<59575, 48707>>
          /\ crc_arg = CStr(<<>>) => crc_result = <<0, 0>>
    /\ crc_phase = "byte" => crc_result = RefByte(crc_arg[1], crc_arg[2])

C5_Witness ==
    /\ crc_phase = "str"
    /\ crc_arg = CStr(<<49, 50, 51, 52, 53, 54, 55, 56, 57>>)
    /\ crc_result = <<52212, 14630>>

(***************************************************************************)
(* Properties of the metadata record.                                      *)
(***************************************************************************)
RecordBytes == BuildMetadataBytes(build_meta)

\* C6: the crc32 field of the record is the CRC-32 of the record's own
\* content: commit up to its NUL, the dirty byte, branch, date and time each
\* up to its NUL.
C6_CrcMatchesStoredContent ==
    meta_pc = "done" =>
        LET b == RecordBytes
        IN  SubSeq(b, 68, 71) =
                LE32(RefCrc32(UpToNul(SubSeq(b, 5, 13)) \o <<b[14]>>
                              \o UpToNul(SubSeq(b, 15, 46))
                              \o UpToNul(SubSeq(b, 47, 58))
                              \o UpToNul(SubSeq(b, 59, 67))))

\* what str_arr<N>(s) has to return, and where it may write
FieldOk(N, s, a, writes) ==
    LET n == Len(UpToNul(s))
        m == IF n < N - 1 THEN n ELSE N - 1
    IN  /\ writes \subseteq 0 .. N - 2
        /\ DOMAIN a = 1 .. N
        /\ \A k \in 1 .. m : a[k] = s[k]
        /\ \A k \in m + 1 .. N : a[k] = 0

\* C7: every str_arr<N>(s) of the record writes only indices 0 .. N-2 and
\* returns N bytes: the first min(len(s), N-1) characters of s, then zeros;
\* the record is 71 bytes with its fields at offsets 0, 4, 13, 14, 46, 58, 67,
\* and a branch name of more than 31 characters is cut to its first 31.
C7_FieldsAndLayout ==
    meta_pc = "done" =>
        LET b == RecordBytes
        IN  /\ FieldOk(9, git_commit, build_meta.commit, str_writes.commit)
            /\ FieldOk(32, git_branch, build_meta.branch, str_writes.branch)
            /\ FieldOk(12, build_date, build_meta.date, str_writes.date)
            /\ FieldOk(9, build_time, build_meta.time, str_writes.time)
            /\ Len(b) = 71
            /\ SubSeq(b, 1, 4) = <<77, 69, 84, 65>>
            /\ SubSeq(b, 5, 13) = build_meta.commit
            /\ b[14] = (IF git_dirty THEN 1 ELSE 0)
            /\ SubSeq(b, 15, 46) = build_meta.branch
            /\ SubSeq(b, 47, 58) = build_meta.date
            /\ SubSeq(b, 59, 67) = build_meta.time
            /\ SubSeq(b, 68, 71) = LE32(build_meta.crc32)
            /\ Len(UpToNul(git_branch)) > 31 =>
                  /\ SubSeq(b, 15, 45) = SubSeq(git_branch, 1, 31)
                  /\ b[46] = 0
                  /\ SubSeq(b, 47, 58) = build_date \o <<>>

C7_Witness ==
    /\ meta_pc = "done"
    /\ Len(UpToNul(git_branch)) = 33
    /\ Len(UpToNul(git_commit)) = 9
    /\ RecordBytes[45] # 0
    /\ RecordBytes[46] = 0
    /\ RecordBytes[47] \in {74, 78}

(***************************************************************************)
(* Properties of the assertion backend and the main loop.                  *)
(***************************************************************************)
EndsWith(s, t) == Len(s) >= Len(t) /\ SubSeq(s, Len(s) - Len(t) + 1, Len(s)) = t

InHandler == pc \in HandlerPcs

\* "  Halting MCU.\r\n"
HaltingText == <<32, 32, 72, 97, 108, 116, 105, 110, 103, 32, 77, 67, 85, 46, 13, 10>>
\* "\r\n!!! ASSERTION FAILED !!!\r\n"
BannerText == <<13, 10, 33, 33, 33, 32, 65, 83, 83, 69, 82, 84, 73, 79, 78, 32, 70, 65,
                73, 76, 69, 68, 32, 33, 33, 33, 13, 10>>

\* what holds once interrupts are disabled: the text is out, both LEDs are
\* on, the CPU spins
C8_Halted ==
    ~irq_enabled =>
        /\ pc = "hf_spin"
        /\ led_green /\ led_red
        /\ SubSeq(uart, 1, Len(BannerText)) = BannerText
        /\ EndsWith(uart, HaltingText)
        /\ (hf.file_name = NULL /\ hf.function_name = NULL /\ hf.message = NULL)
               => uart = BannerText \o HaltingText

C8_Step ==
    \* no return to the main loop
    /\ InHandler => InHandler'
    \* text is written only before the LEDs are set and interrupts disabled
    /\ (InHandler /\ uart' # uart) =>
           /\ irq_enabled'
           /\ pc \in {"hf_banner", "hf_file", "hf_function", "hf_message", "hf_halting"}
    \* the LEDs are set only after the whole text, green first, and before
    \* interrupts are disabled
    /\ (InHandler /\ (led_green' # led_green \/ led_red' # led_red)) =>
           /\ EndsWith(uart, HaltingText)
           /\ uart' = uart
           /\ irq_enabled'
           /\ led_red' => led_green'
    /\ (pc = "hf_led_red" /\ pc' # pc) => (led_green' /\ led_red')
    \* interrupts are disabled with both LEDs on
    /\ (irq_enabled /\ ~irq_enabled') => (led_green /\ led_red /\ pc' = "hf_spin")
    \* afterwards nothing changes any more
    /\ ~irq_enabled =>
           /\ pc' = "hf_spin"
           /\ UNCHANGED <<uart, led_green, led_red, irq_enabled>>

\* C8: once pw_assert_basic_HandleFailure is entered it never returns; it
\* writes its text (ending with "  Halting MCU.\r\n"), then sets both LEDs,
\* then disables interrupts, then spins; after interrupts are disabled no byte
\* is written, no LED changes and the main loop never runs again.
C8_FailStop == []C8_Halted /\ [][C8_Step]_vars

C8_Witness ==
    /\ pc = "hf_spin"
    /\ ~irq_enabled
    /\ hf.file_name # NULL
    /\ hf.line_number = 151
    /\ hf.message # NULL
    /\ Len(uart) > Len(BannerText) + Len(HaltingText) + 30
    /\ iter = 17

\* C10: the readings buffer never holds more than 16 entries; ProcessBatch
\* is only called with 16 readings and its status never takes PW_CHECK_OK to
\* the assertion handler; the buffer is empty right after a batch; after k
\* loop iterations batch_count is floor(k / 16).
C10_BatchEvery16 ==
    /\ Len(readings) <= 16
    /\ batch_sizes \subseteq {16}
    /\ entered_by # "PW_CHECK_OK"
    /\ pc = "red_on" => (readings = <<>> /\ iter % 16 = 0)
    /\ pc \in {"loop", "red_on"} =>
           /\ batch_count = <<0, iter \div 16>>
           /\ Len(readings) = iter % 16
    /\ pc = "check_full" => batch_count = <<0, (iter - 1) \div 16>>

C10_Witness ==
    /\ pc = "red_on"
    /\ iter = 32
    /\ batch_count = <<0, 2>>
    /\ readings = <<>>
    /\ batch_sizes = {16}

====
